---------------------------- MODULE Spec2Model ----------------------------
(***************************************************************************)
(* Model of drivers/gpu/drm/panel/panel-raydium-rm69080.c: the command     *)
(* sequencer set_cmd_rm69080, the panel callbacks rm69080_prepare,         *)
(* rm69080_enable, rm69080_disable, rm69080_unprepare and                  *)
(* rm69080_get_modes (Spec), the sequencer on any command list (SpecSeq),  *)
(* and rm69080_probe and rm69080_remove (SpecProbe).                       *)
(*                                                                         *)
(* A callback that talks to the bus is modelled statement by statement     *)
(* (pc is its position); the outcome of every bus call is chosen freely    *)
(* from the values the DSI host may return.  "events" is the trace of bus  *)
(* calls and delays of the call in progress (or of the last call).         *)
(***************************************************************************)
EXTENDS Integers, Sequences, FiniteSets

VARIABLES
    prepared,   \* ctx->prepared
    enabled,    \* ctx->enabled
    pc,         \* position of the running callback, "idle" between calls
    op,         \* the callback running, or the last one that ran
    cmd_list,   \* set_cmd_rm69080: argument cmd_list (count = Len(cmd_list))
    i,          \* set_cmd_rm69080: loop index (0-based, as in the source)
    seq_ret,    \* set_cmd_rm69080: local ret, and its return value once returned
    ret,        \* return value of the last callback that returned
    events,     \* bus writes, DCS commands and delays of the current/last call
    pre,        \* <<prepared, enabled>> when the current/last call was entered
    prev,       \* summary of the call before the current/last one
    misuse,     \* out-of-order calls the caller has made so far
    ctx,        \* the struct rm69080 that rm69080_probe allocated, or NULL
    drvdata,    \* the driver data of the DSI device (mipi_dsi_get_drvdata)
    panels,     \* the panels registered with the DRM core (drm_panel_add)
    attached,   \* the DSI device is attached to its host (mipi_dsi_attach)
    bound,      \* the driver core holds the device bound: probe returned 0
    nalloc,     \* number of contexts devm_kzalloc has handed out
    mode,       \* rm69080_get_modes: local mode, NULL or a display mode
    connector   \* rm69080_get_modes: the connector argument

\* the DSI device and the DRM core's registry
host == <<ctx, drvdata, panels, attached, bound, nalloc>>

\* the state rm69080_get_modes works on
gm == <<mode, connector>>

vars == <<prepared, enabled, pc, op, cmd_list, i, seq_ret, ret, events, pre,
          prev, misuse, host, gm>>

(***************************************************************************)
(* Bounds of the sequencer harness (SpecSeq).                              *)
(***************************************************************************)
MaxLen == 3

(***************************************************************************)
(* Bound of the bind/unbind harness (SpecProbe): contexts handed out.      *)
(***************************************************************************)
MaxBinds == 3

(***************************************************************************)
(* Program constants and tables.                                           *)
(***************************************************************************)
SLEEP_CMD == 0

Entry(c, p) == [cmd |-> c, param |-> p]

\* 0xFE = 254, 0x4F = 79, 0x1C = 28, 0x1B = 27, 0x35 = 53, 0x51 = 81,
\* 0xF0 = 240, 0x38 = 56, 0x11 = 17, 0x96 = 150, 0x29 = 41
rm69080_400x400_mod ==
    << Entry(254, 5),  Entry(5, 0),
       Entry(254, 7),  Entry(7, 79),
       Entry(254, 10), Entry(28, 27),
       Entry(254, 0),  Entry(53, 0),
       Entry(81, 240),
       Entry(56, 0),
       Entry(17, 0),
       Entry(SLEEP_CMD, 150),
       Entry(SLEEP_CMD, 150),
       Entry(41, 0) >>

\* COUNT_CMD(x): sizeof(x) / sizeof(x[0])
COUNT_CMD(x) == Len(x)

(***************************************************************************)
(* Outcomes of the bus collaborator.  mipi_dsi_generic_write returns the   *)
(* number of bytes sent (0 or more) or a negative errno; the DCS helpers   *)
(* return 0 or a negative errno.  -5 is -EIO, -110 is -ETIMEDOUT.          *)
(***************************************************************************)
WriteResults == {-110, -5, 0, 2}
DcsResults == {-110, -5, 0}

(***************************************************************************)
(* Events.                                                                 *)
(***************************************************************************)
WriteEv(c, p, r) == <<"write", c, p, r >= 0>>
SleepEv(ms) == <<"msleep", ms>>
DcsEv(name, r) == <<name, r = 0>>

\* every bus operation of the trace succeeded
AllOk(ev) ==
    \A n \in 1..Len(ev) : ev[n][1] = "msleep" \/ ev[n][Len(ev[n])] = TRUE

Failures(ev) ==
    {n \in 1..Len(ev) : ev[n][1] # "msleep" /\ ev[n][Len(ev[n])] = FALSE}

Flags == <<prepared, enabled>>

\* bookkeeping done on entry of every callback: dev_info() plus the observer
Enter(o) ==
    /\ op' = o
    /\ pre' = Flags
    /\ prev' = [op |-> op, post |-> Flags, ok |-> AllOk(events), ret |-> ret,
                before |-> prev.op]
    /\ events' = <<>>

\* no call before the first one
NoCall ==
    [op |-> "none", post |-> <<FALSE, FALSE>>, ok |-> TRUE, ret |-> 0,
     before |-> "none"]

\* a null pointer; contexts are numbered from 1
NULL == 0

\* a struct drm_display_mode pointer that is NULL
NullMode == [null |-> TRUE]

\* struct drm_connector: probed_modes and display_info.width_mm/height_mm.
\* The connector is handed to get_modes with an empty probed_modes list.
NoConnector == [probed_modes |-> <<>>, width_mm |-> 0, height_mm |-> 0]

\* the panel after a probe in which every step succeeded: the context is
\* zeroed by devm_kzalloc, registered and attached; no driver data is set
Init ==
    /\ prepared = FALSE
    /\ enabled = FALSE
    /\ pc = "idle"
    /\ op = "none"
    /\ cmd_list = <<>>
    /\ i = 0
    /\ seq_ret = 0
    /\ ret = 0
    /\ events = <<>>
    /\ pre = <<FALSE, FALSE>>
    /\ prev = NoCall
    /\ misuse = {}
    /\ ctx = 1
    /\ drvdata = NULL
    /\ panels = {1}
    /\ attached = TRUE
    /\ bound = TRUE
    /\ nalloc = 1
    /\ mode = NullMode
    /\ connector = NoConnector

(***************************************************************************)
(* set_cmd_rm69080                                                         *)
(***************************************************************************)
\* where set_cmd_rm69080 returns to: rm69080_prepare discards the value and
\* goes on with mipi_dsi_dcs_exit_sleep_mode
SetCmdReturnPc == IF op = "prepare" THEN "exit_sleep" ELSE "idle"

IsSleepEntry(entry) == entry.cmd = SLEEP_CMD

\* a sequencer that never looks at the result of the write
WriteFailedIgnored(r) == FALSE

\* "if (ret < 0)"
WriteFailed(r) == r < 0

\* one iteration on a write entry
SetCmdWrite ==
    /\ pc = "set_cmd"
    /\ i < COUNT_CMD(cmd_list)
    /\ LET entry == cmd_list[i + 1] IN
       /\ ~IsSleepEntry(entry)
       /\ \E r \in WriteResults :
            /\ events' = Append(events, WriteEv(entry.cmd, entry.param, r))
            /\ seq_ret' = r
            /\ IF WriteFailed(r)
               THEN /\ pc' = SetCmdReturnPc
                    /\ i' = i
               ELSE /\ pc' = pc
                    /\ i' = i + 1
    /\ UNCHANGED <<host, gm, prepared, enabled, op, cmd_list, ret, pre, prev, misuse>>

\* one iteration on a delay entry
SetCmdSleep ==
    /\ pc = "set_cmd"
    /\ i < COUNT_CMD(cmd_list)
    /\ LET entry == cmd_list[i + 1] IN
       /\ IsSleepEntry(entry)
       /\ events' = Append(events, SleepEv(entry.param))
    /\ i' = i + 1
    /\ UNCHANGED <<host, gm, prepared, enabled, pc, op, cmd_list, seq_ret, ret, pre, prev,
                   misuse>>

\* loop exit and "return ret"
SetCmdReturn ==
    /\ pc = "set_cmd"
    /\ ~(i < COUNT_CMD(cmd_list))
    /\ pc' = SetCmdReturnPc
    /\ UNCHANGED <<host, gm, prepared, enabled, op, cmd_list, i, seq_ret, ret, events, pre,
                   prev, misuse>>

(***************************************************************************)
(* rm69080_disable, rm69080_enable                                         *)
(***************************************************************************)
\* a disable that carries the body of rm69080_enable
DisabledValueAsEnable(en) == IF en THEN en ELSE TRUE

\* a disable that returns without writing the flag
DisabledValueKept(en) == en

\* "if (!ctx->enabled) return 0; ctx->enabled = false;"
DisabledValue(en) == IF ~en THEN en ELSE FALSE

rm69080_disable ==
    /\ pc = "idle"
    /\ Enter("disable")
    /\ enabled' = DisabledValue(enabled)
    /\ ret' = 0
    /\ UNCHANGED <<host, gm, prepared, pc, cmd_list, i, seq_ret, misuse>>

\* an enable that flips the flag instead of setting it
EnabledValueToggled(en) == ~en

\* "if (ctx->enabled) return 0; ctx->enabled = true;"
EnabledValue(en) == IF en THEN en ELSE TRUE

\* an enable that refuses (-EINVAL) while the panel is not prepared
rm69080_enable_checked ==
    /\ pc = "idle"
    /\ Enter("enable")
    /\ enabled' = IF prepared THEN EnabledValue(enabled) ELSE enabled
    /\ ret' = IF prepared THEN 0 ELSE -22
    /\ misuse' = IF prepared THEN misuse ELSE misuse \cup {"enable_unprepared"}
    /\ UNCHANGED <<host, gm, prepared, pc, cmd_list, i, seq_ret>>

rm69080_enable ==
    /\ pc = "idle"
    /\ Enter("enable")
    /\ enabled' = EnabledValue(enabled)
    /\ ret' = 0
    /\ misuse' = IF prepared THEN misuse ELSE misuse \cup {"enable_unprepared"}
    /\ UNCHANGED <<host, gm, prepared, pc, cmd_list, i, seq_ret>>

(***************************************************************************)
(* rm69080_unprepare                                                       *)
(***************************************************************************)
UnprepareCall ==
    /\ pc = "idle"
    /\ Enter("unprepare")
    /\ IF ~prepared
       THEN /\ ret' = 0
            /\ pc' = "idle"
       ELSE /\ ret' = ret
            /\ pc' = "display_off"
    /\ misuse' = IF enabled THEN misuse \cup {"unprepare_enabled"} ELSE misuse
    /\ UNCHANGED <<host, gm, prepared, enabled, cmd_list, i, seq_ret>>

\* a teardown that gives up when display-off fails
UnprepareDisplayOffAborts(r) == IF r # 0 THEN "idle" ELSE "enter_sleep"

\* a failure of mipi_dsi_dcs_set_display_off is logged only
UnprepareDisplayOffNext(r) == "enter_sleep"

UnprepareDisplayOff ==
    /\ pc = "display_off"
    /\ \E r \in DcsResults :
         /\ events' = Append(events, DcsEv("set_display_off", r))
         /\ pc' = UnprepareDisplayOffNext(r)
    /\ UNCHANGED <<host, gm, prepared, enabled, op, cmd_list, i, seq_ret, ret, pre, prev,
                   misuse>>

UnprepareEnterSleep ==
    /\ pc = "enter_sleep"
    /\ \E r \in DcsResults :
         events' = Append(events, DcsEv("enter_sleep_mode", r))
    /\ pc' = "clear_prepared"
    /\ UNCHANGED <<host, gm, prepared, enabled, op, cmd_list, i, seq_ret, ret, pre, prev,
                   misuse>>

\* a teardown that clears enabled along with prepared
UnprepareDoneClearsEnabled ==
    /\ pc = "clear_prepared"
    /\ prepared' = FALSE
    /\ enabled' = FALSE
    /\ ret' = 0
    /\ pc' = "idle"
    /\ UNCHANGED <<host, gm, op, cmd_list, i, seq_ret, events, pre, prev, misuse>>

UnprepareDone ==
    /\ pc = "clear_prepared"
    /\ prepared' = FALSE
    /\ ret' = 0
    /\ pc' = "idle"
    /\ UNCHANGED <<host, gm, enabled, op, cmd_list, i, seq_ret, events, pre, prev, misuse>>

(***************************************************************************)
(* rm69080_prepare                                                         *)
(***************************************************************************)
PrepareCall ==
    /\ pc = "idle"
    /\ Enter("prepare")
    /\ cmd_list' = rm69080_400x400_mod
    /\ i' = 0
    /\ seq_ret' = 0
    /\ pc' = "set_cmd"
    /\ UNCHANGED <<host, gm, prepared, enabled, ret, misuse>>

\* a test with the wrong sign: a negative errno passes
ExitSleepFailedPositive(r) == r > 0

\* "if (ret)" after mipi_dsi_dcs_exit_sleep_mode
ExitSleepFailed(r) == r # 0

PrepareExitSleep ==
    /\ pc = "exit_sleep"
    /\ \E r \in DcsResults :
         /\ events' = Append(events, DcsEv("exit_sleep_mode", r))
         /\ IF ExitSleepFailed(r)
            THEN /\ ret' = r
                 /\ pc' = "idle"
            ELSE /\ ret' = ret
                 /\ pc' = "settle40"
    /\ UNCHANGED <<host, gm, prepared, enabled, op, cmd_list, i, seq_ret, pre, prev, misuse>>

\* the longer settle time (400 ms) in place of 40 ms
PrepareSettle400 ==
    /\ pc = "settle40"
    /\ events' = Append(events, SleepEv(400))
    /\ pc' = "display_on"
    /\ UNCHANGED <<host, gm, prepared, enabled, op, cmd_list, i, seq_ret, ret, pre, prev,
                   misuse>>

PrepareSettle40 ==
    /\ pc = "settle40"
    /\ events' = Append(events, SleepEv(40))
    /\ pc' = "display_on"
    /\ UNCHANGED <<host, gm, prepared, enabled, op, cmd_list, i, seq_ret, ret, pre, prev,
                   misuse>>

\* a test with the wrong sign: a negative errno passes
DisplayOnFailedPositive(r) == r > 0

\* "if (ret)" after mipi_dsi_dcs_set_display_on
DisplayOnFailed(r) == r # 0

\* an error path that marks the panel unprepared
PrepareDisplayOnResets ==
    /\ pc = "display_on"
    /\ \E r \in DcsResults :
         /\ events' = Append(events, DcsEv("set_display_on", r))
         /\ IF DisplayOnFailed(r)
            THEN /\ ret' = r
                 /\ prepared' = FALSE
                 /\ pc' = "idle"
            ELSE /\ ret' = ret
                 /\ prepared' = prepared
                 /\ pc' = "settle20"
    /\ UNCHANGED <<host, gm, enabled, op, cmd_list, i, seq_ret, pre, prev, misuse>>

PrepareDisplayOn ==
    /\ pc = "display_on"
    /\ \E r \in DcsResults :
         /\ events' = Append(events, DcsEv("set_display_on", r))
         /\ IF DisplayOnFailed(r)
            THEN /\ ret' = r
                 /\ pc' = "idle"
            ELSE /\ ret' = ret
                 /\ pc' = "settle20"
    /\ UNCHANGED <<host, gm, prepared, enabled, op, cmd_list, i, seq_ret, pre, prev, misuse>>

PrepareSettle20 ==
    /\ pc = "settle20"
    /\ events' = Append(events, SleepEv(20))
    /\ pc' = "set_prepared"
    /\ UNCHANGED <<host, gm, prepared, enabled, op, cmd_list, i, seq_ret, ret, pre, prev,
                   misuse>>

PrepareDone ==
    /\ pc = "set_prepared"
    /\ prepared' = TRUE
    /\ ret' = 0
    /\ pc' = "idle"
    /\ UNCHANGED <<host, gm, enabled, op, cmd_list, i, seq_ret, events, pre, prev, misuse>>

(***************************************************************************)
(* rm69080_get_modes                                                       *)
(***************************************************************************)
\* a mode table whose totals leave out the back porch
rm69080_modes_short ==
    << [ clock |-> 11094,
         hdisplay |-> 400,
         hsync_start |-> 400 + 10,
         hsync_end |-> 400 + 10 + 10,
         htotal |-> 400 + 10 + 10,
         vdisplay |-> 400,
         vsync_start |-> 400 + 10,
         vsync_end |-> 400 + 10 + 10,
         vtotal |-> 400 + 10 + 10,
         type |-> {},
         name |-> <<>>,
         width_mm |-> 0,
         height_mm |-> 0 ] >>

\* the fields the initialiser leaves out are zero: no type bit, an empty
\* name, no physical size
rm69080_modes ==
    << [ clock |-> 11094,
         hdisplay |-> 400,
         hsync_start |-> 400 + 10,
         hsync_end |-> 400 + 10 + 10,
         htotal |-> 10 + 400 + 10 + 10,
         vdisplay |-> 400,
         vsync_start |-> 400 + 10,
         vsync_end |-> 400 + 10 + 10,
         vtotal |-> 10 + 400 + 10 + 10,
         type |-> {},
         name |-> <<>>,
         width_mm |-> 0,
         height_mm |-> 0 ] >>

\* drm_mode_duplicate: a copy of the mode, or NULL when the allocation fails
drm_mode_duplicate(m, alloc_ok) == IF alloc_ok THEN m ELSE NullMode

\* drm_mode_set_name: "<hdisplay>x<vdisplay>"
drm_mode_set_name(m) == [m EXCEPT !.name = <<m.hdisplay, "x", m.vdisplay>>]

\* drm_mode_probed_add: the mode goes to the tail of connector->probed_modes
drm_mode_probed_add(c, m) ==
    [c EXCEPT !.probed_modes = Append(c.probed_modes, m)]

\* entry, and "mode = drm_mode_duplicate(connector->dev, m)"; a failure is
\* logged and the function goes on
GetModesCall ==
    /\ pc = "idle"
    /\ Enter("get_modes")
    /\ connector' = NoConnector
    /\ \E alloc_ok \in BOOLEAN :
         mode' = drm_mode_duplicate(rm69080_modes[1], alloc_ok)
    /\ pc' = "gm_mode"
    /\ UNCHANGED <<host, prepared, enabled, cmd_list, i, seq_ret, ret, misuse>>

\* drm_mode_set_name ... "return 1" with a mode
GetModesFill ==
    /\ pc = "gm_mode"
    /\ mode # NullMode
    /\ LET named == drm_mode_set_name(mode)
           typed == [named EXCEPT !.type = {"DRM_MODE_TYPE_DRIVER"}]
           sized == [connector EXCEPT !.width_mm = typed.width_mm,
                                      !.height_mm = typed.height_mm]
       IN /\ mode' = typed
          /\ connector' = drm_mode_probed_add(sized, typed)
    /\ ret' = 1
    /\ pc' = "idle"
    /\ UNCHANGED <<host, prepared, enabled, op, cmd_list, i, seq_ret, events,
                   pre, prev, misuse>>

\* the same statements with mode == NULL: drm_mode_set_name writes through
\* the null pointer.  Either the access faults and the call never returns,
\* or it goes through and the null mode is added and 1 returned.
GetModesNullDeref ==
    /\ pc = "gm_mode"
    /\ mode = NullMode
    /\ \E faults \in BOOLEAN :
         IF faults
         THEN /\ pc' = "oops"
              /\ UNCHANGED <<connector, ret>>
         ELSE /\ connector' = drm_mode_probed_add(connector, mode)
              /\ ret' = 1
              /\ pc' = "idle"
    /\ UNCHANGED <<host, mode, prepared, enabled, op, cmd_list, i, seq_ret,
                   events, pre, prev, misuse>>

(***************************************************************************)
(* The panel driven by the DRM core: one callback at a time.               *)
(***************************************************************************)
Next ==
    \/ rm69080_disable
    \/ rm69080_enable
    \/ UnprepareCall
    \/ UnprepareDisplayOff
    \/ UnprepareEnterSleep
    \/ UnprepareDone
    \/ PrepareCall
    \/ SetCmdWrite
    \/ SetCmdSleep
    \/ SetCmdReturn
    \/ PrepareExitSleep
    \/ PrepareSettle40
    \/ PrepareDisplayOn
    \/ PrepareSettle20
    \/ PrepareDone
    \/ GetModesCall
    \/ GetModesFill
    \/ GetModesNullDeref

Spec == Init /\ [][Next]_vars

(***************************************************************************)
(* The sequencer on its own: set_cmd_rm69080 called with any command list  *)
(* of at most MaxLen entries.                                              *)
(***************************************************************************)
CmdValues == {SLEEP_CMD, 17, 254}
ParamValues == {0, 150}
Entries == {Entry(c, p) : c \in CmdValues, p \in ParamValues}
CmdLists == UNION {[1..n -> Entries] : n \in 0..MaxLen}

InitSeq ==
    /\ prepared = FALSE
    /\ enabled = FALSE
    /\ pc = "set_cmd"
    /\ op = "set_cmd"
    /\ cmd_list \in CmdLists
    /\ i = 0
    /\ seq_ret = 0
    /\ ret = 0
    /\ events = <<>>
    /\ pre = <<FALSE, FALSE>>
    /\ prev = NoCall
    /\ misuse = {}
    /\ ctx = 1
    /\ drvdata = NULL
    /\ panels = {1}
    /\ attached = TRUE
    /\ bound = TRUE
    /\ nalloc = 1
    /\ mode = NullMode
    /\ connector = NoConnector

NextSeq ==
    \/ SetCmdWrite
    \/ SetCmdSleep
    \/ SetCmdReturn

SpecSeq == InitSeq /\ [][NextSeq]_vars

(***************************************************************************)
(* rm69080_probe and rm69080_remove, called by the driver core: probe on   *)
(* an unbound device, remove on a bound one.  A probe that returns 0 binds *)
(* the device; the device-managed context is released after a failed probe *)
(* and after remove.                                                       *)
(***************************************************************************)
\* drm_panel_add returns an int that probe tests; -12 is -ENOMEM
PanelAddResults == {-12, 0}

\* mipi_dsi_attach: 0, -ENOSYS (-38) or -EPROBE_DEFER (-517)
AttachResults == {-517, -38, 0}

\* entry, the dsi fields, "ctx = devm_kzalloc(...)" and its NULL test
ProbeCall ==
    /\ pc = "idle"
    /\ ~bound
    /\ nalloc < MaxBinds
    /\ Enter("probe")
    /\ \E alloc_ok \in BOOLEAN :
         IF alloc_ok
         THEN /\ nalloc' = nalloc + 1
              /\ ctx' = nalloc + 1
              /\ prepared' = FALSE
              /\ enabled' = FALSE
              /\ ret' = ret
              /\ pc' = "panel_add"
         ELSE /\ ret' = -12
              /\ pc' = "idle"
              /\ UNCHANGED <<nalloc, ctx, prepared, enabled>>
    /\ UNCHANGED <<gm, drvdata, panels, attached, bound, cmd_list, i, seq_ret,
                   misuse>>

\* "ret = drm_panel_add(&ctx->base); if (ret) return ret;"
ProbePanelAdd ==
    /\ pc = "panel_add"
    /\ \E r \in PanelAddResults :
         /\ events' = Append(events, DcsEv("drm_panel_add", r))
         /\ IF r # 0
            THEN /\ ret' = r
                 /\ ctx' = NULL
                 /\ pc' = "idle"
                 /\ panels' = panels
            ELSE /\ ret' = ret
                 /\ ctx' = ctx
                 /\ pc' = "attach"
                 /\ panels' = panels \cup {ctx}
    /\ UNCHANGED <<gm, drvdata, attached, bound, nalloc, prepared, enabled, op,
                   cmd_list, i, seq_ret, pre, prev, misuse>>

\* "ret = mipi_dsi_attach(dsi); if (ret) { ...; drm_panel_remove(&ctx->base); }"
ProbeAttach ==
    /\ pc = "attach"
    /\ \E r \in AttachResults :
         /\ events' = Append(events, DcsEv("mipi_dsi_attach", r))
         /\ IF r # 0
            THEN /\ panels' = panels \ {ctx}
                 /\ attached' = FALSE
            ELSE /\ panels' = panels
                 /\ attached' = TRUE
    /\ pc' = "probe_return"
    /\ UNCHANGED <<gm, ctx, drvdata, bound, nalloc, prepared, enabled, op,
                   cmd_list, i, seq_ret, ret, pre, prev, misuse>>

\* "return 0;"
ProbeReturn ==
    /\ pc = "probe_return"
    /\ ret' = 0
    /\ bound' = TRUE
    /\ pc' = "idle"
    /\ UNCHANGED <<gm, ctx, drvdata, panels, attached, nalloc, prepared, enabled,
                   op, cmd_list, i, seq_ret, events, pre, prev, misuse>>

\* entry and "ctx = mipi_dsi_get_drvdata(dsi)"
RemoveCall ==
    /\ pc = "idle"
    /\ bound
    /\ Enter("remove")
    /\ pc' = "detach"
    /\ UNCHANGED <<host, gm, prepared, enabled, cmd_list, i, seq_ret, ret, misuse>>

\* "mipi_dsi_detach(dsi);", its result is not looked at
RemoveDetach ==
    /\ pc = "detach"
    /\ \E r \in {-38, 0} :
         events' = Append(events, DcsEv("mipi_dsi_detach", r))
    /\ attached' = FALSE
    /\ pc' = "panel_remove"
    /\ UNCHANGED <<gm, ctx, drvdata, panels, bound, nalloc, prepared, enabled, op,
                   cmd_list, i, seq_ret, ret, pre, prev, misuse>>

\* "drm_panel_remove(&ctx->base); return 0;" with ctx the driver data.  With
\* a null ctx the list removal goes through a null pointer: either it faults
\* and remove never returns, or it goes through and no registered panel is
\* taken off the list.  After the return the device is unbound and the
\* context that probe allocated is released.
RemovePanel ==
    /\ pc = "panel_remove"
    /\ IF drvdata # NULL
       THEN /\ events' = Append(events, <<"drm_panel_remove", TRUE>>)
            /\ panels' = panels \ {drvdata}
            /\ ret' = 0
            /\ bound' = FALSE
            /\ ctx' = NULL
            /\ pc' = "idle"
       ELSE \E faults \in BOOLEAN :
              IF faults
              THEN /\ pc' = "oops"
                   /\ UNCHANGED <<events, panels, ret, bound, ctx>>
              ELSE /\ events' = Append(events, <<"drm_panel_remove", FALSE>>)
                   /\ panels' = panels
                   /\ ret' = 0
                   /\ bound' = FALSE
                   /\ ctx' = NULL
                   /\ pc' = "idle"
    /\ UNCHANGED <<gm, drvdata, attached, nalloc, prepared, enabled, op, cmd_list,
                   i, seq_ret, pre, prev, misuse>>

\* a device the driver has not been bound to yet
InitProbe ==
    /\ prepared = FALSE
    /\ enabled = FALSE
    /\ pc = "idle"
    /\ op = "none"
    /\ cmd_list = <<>>
    /\ i = 0
    /\ seq_ret = 0
    /\ ret = 0
    /\ events = <<>>
    /\ pre = <<FALSE, FALSE>>
    /\ prev = NoCall
    /\ misuse = {}
    /\ ctx = NULL
    /\ drvdata = NULL
    /\ panels = {}
    /\ attached = FALSE
    /\ bound = FALSE
    /\ nalloc = 0
    /\ mode = NullMode
    /\ connector = NoConnector

NextProbe ==
    \/ ProbeCall
    \/ ProbePanelAdd
    \/ ProbeAttach
    \/ ProbeReturn
    \/ RemoveCall
    \/ RemoveDetach
    \/ RemovePanel

SpecProbe == InitProbe /\ [][NextProbe]_vars

(***************************************************************************)
(* Properties.                                                             *)
(***************************************************************************)
IsPrefix(a, b) ==
    /\ Len(a) <= Len(b)
    /\ \A n \in 1..Len(a) : a[n] = b[n]

Has(ev, e) == \E n \in 1..Len(ev) : ev[n] = e

\* C1: prepare called on a panel that is already prepared returns success
\* at once: no bus write, no delay, prepared and enabled unchanged.
C1_PrepareOnPreparedIsNoOp ==
    (op = "prepare" /\ pre[1])
        => (pc = "idle" /\ events = <<>> /\ ret = 0 /\ Flags = pre)

\* C2: when prepare is called on an unprepared panel and exactly one bus
\* operation fails, a command-list write, prepare returns a failure and
\* prepared is still false.
C2_ListWriteFailureFailsPrepare ==
    ( /\ op = "prepare"
      /\ pc = "idle"
      /\ ~pre[1]
      /\ Cardinality(Failures(events)) = 1
      /\ \A n \in Failures(events) : events[n][1] = "write" )
        => (ret # 0 /\ ~prepared)

\* C3 (as claimed): if enable is only ever called while prepared is true,
\* then between operations enabled implies prepared.
C3_EnabledImpliesPrepared_EnableOrdered ==
    (pc = "idle" /\ "enable_unprepared" \notin misuse)
        => (enabled => prepared)

\* C3 (amended): if enable is only ever called while prepared is true and
\* unprepare is only ever called while enabled is false, then between
\* operations enabled implies prepared.
C3_EnabledImpliesPrepared_CallerOrdered ==
    (pc = "idle" /\ misuse = {}) => (enabled => prepared)

C3_Witness ==
    /\ pc = "idle"
    /\ misuse = {}
    /\ op = "enable"
    /\ prev.op = "prepare"
    /\ enabled
    /\ prepared

\* what the sequencer does for an entry it applies
Applied(entry) ==
    IF entry.cmd = 0
    THEN <<"msleep", entry.param>>
    ELSE <<"write", entry.cmd, entry.param, TRUE>>

\* C4: when the write of the entry at index k fails, the sequencer has
\* applied exactly the entries 0..k-1, once each and in list order, applies
\* nothing after k, and returns a negative result.
C4_SequencerStopsAtFailure ==
    \A n \in Failures(events) :
        /\ n = Len(events)
        /\ i = n - 1
        /\ \A j \in 1..(n - 1) : events[j] = Applied(cmd_list[j])
        /\ events[n] = <<"write", cmd_list[n].cmd, cmd_list[n].param, FALSE>>
        /\ pc = "idle"
        /\ seq_ret < 0

C4_Witness ==
    /\ Failures(events) = {3}
    /\ events[1][1] = "msleep"
    /\ events[2][1] = "write"
    /\ Len(cmd_list) = 3
    /\ pc = "idle"

\* the trace of a prepare in which everything succeeds
ExpectedPrepareTrace ==
    << <<"write", 254, 5, TRUE>>,  <<"write", 5, 0, TRUE>>,
       <<"write", 254, 7, TRUE>>,  <<"write", 7, 79, TRUE>>,
       <<"write", 254, 10, TRUE>>, <<"write", 28, 27, TRUE>>,
       <<"write", 254, 0, TRUE>>,  <<"write", 53, 0, TRUE>>,
       <<"write", 81, 240, TRUE>>, <<"write", 56, 0, TRUE>>,
       <<"write", 17, 0, TRUE>>,
       <<"msleep", 150>>, <<"msleep", 150>>,
       <<"write", 41, 0, TRUE>>,
       <<"exit_sleep_mode", TRUE>>, <<"msleep", 40>>,
       <<"set_display_on", TRUE>>, <<"msleep", 20>> >>

\* C5: a prepare on an unprepared panel in which every bus operation
\* succeeds issues the 14 table entries in order (12 writes, 2 delays of
\* 150 ms), exit-sleep, a 40 ms delay, display-on, a 20 ms delay; prepared
\* becomes true only after all of them, and prepare returns 0.
C5_PrepareSuccessTrace ==
    (op = "prepare" /\ ~pre[1] /\ AllOk(events))
        => /\ IsPrefix(events, ExpectedPrepareTrace)
           /\ prepared => events = ExpectedPrepareTrace
           /\ pc = "idle"
                => /\ events = ExpectedPrepareTrace
                   /\ prepared
                   /\ ret = 0
                   /\ Cardinality({n \in 1..14 : events[n][1] = "write"
                                                  /\ events[n][2] # 0}) = 12
                   /\ {n \in 1..14 : events[n] = <<"msleep", 150>>} = {12, 13}

C5_Witness ==
    /\ op = "prepare"
    /\ prev.op = "none"
    /\ ~pre[1]
    /\ pc = "idle"
    /\ AllOk(events)
    /\ Len(events) = 18
    /\ prepared

\* C6: when exit-sleep fails in a prepare on an unprepared panel, prepare
\* stops there: no display-on, an error is returned, prepared is false.
C6_ExitSleepFailureAborts ==
    (op = "prepare" /\ ~pre[1] /\ Has(events, <<"exit_sleep_mode", FALSE>>))
        => /\ pc = "idle"
           /\ events[Len(events)] = <<"exit_sleep_mode", FALSE>>
           /\ \A n \in 1..Len(events) : events[n][1] # "set_display_on"
           /\ ret < 0
           /\ ~prepared

C6_Witness ==
    /\ op = "prepare"
    /\ ~pre[1]
    /\ Len(events) = 15
    /\ events[15] = <<"exit_sleep_mode", FALSE>>
    /\ ret = -5

\* C7: when display-on fails in a prepare after exit-sleep succeeded,
\* prepare returns an error and prepared keeps the value it had on entry.
C7_DisplayOnFailureKeepsPrepared ==
    (op = "prepare" /\ Has(events, <<"set_display_on", FALSE>>))
        => /\ Has(events, <<"exit_sleep_mode", TRUE>>)
           /\ pc = "idle"
           /\ events[Len(events)] = <<"set_display_on", FALSE>>
           /\ ret < 0
           /\ prepared = pre[1]

C7_Witness ==
    /\ op = "prepare"
    /\ ~pre[1]
    /\ pc = "idle"
    /\ Len(events) = 17
    /\ events[15] = <<"exit_sleep_mode", TRUE>>
    /\ events[17] = <<"set_display_on", FALSE>>
    /\ ret = -110

\* C8: unprepare on a prepared panel attempts display-off and then
\* enter-sleep whatever their outcomes, returns 0 and leaves prepared false.
C8_UnprepareBestEffort ==
    (op = "unprepare" /\ pre[1])
        => /\ Len(events) <= 2
           /\ Len(events) >= 1 => events[1][1] = "set_display_off"
           /\ Len(events) = 2 => events[2][1] = "enter_sleep_mode"
           /\ pc = "idle" => (Len(events) = 2 /\ ret = 0 /\ ~prepared)

C8_Witness ==
    /\ op = "unprepare"
    /\ pre[1]
    /\ pc = "idle"
    /\ events = << <<"set_display_off", FALSE>>, <<"enter_sleep_mode", FALSE>> >>
    /\ ~prepared

\* C9: with every bus write succeeding, a second call of the same operation
\* right after the first leaves the flags the first call left, and returns 0.
C9_StateIdempotence ==
    ( /\ pc = "idle"
      /\ op \in {"prepare", "enable", "disable", "unprepare"}
      /\ prev.op = op
      /\ prev.ok
      /\ AllOk(events) )
        => (Flags = prev.post /\ ret = 0)

C9_Witness ==
    /\ pc = "idle"
    /\ op = "prepare"
    /\ prev.op = "prepare"
    /\ prev.ok
    /\ AllOk(events)
    /\ Len(events) = 18
    /\ prepared

\* C10: enable, disable, and unprepare on an unprepared panel return 0
\* without any bus write or delay; enable leaves enabled true, disable
\* leaves it false, and that unprepare leaves both flags as they were.
C10_NoBusOperations ==
    (op \in {"enable", "disable"} \/ (op = "unprepare" /\ ~pre[1]))
        => /\ pc = "idle"
           /\ events = <<>>
           /\ ret = 0
           /\ op = "enable" => enabled
           /\ op = "disable" => ~enabled
           /\ op = "unprepare" => Flags = pre

C10_Witness ==
    /\ op = "unprepare"
    /\ ~pre[1]
    /\ pre[2]
    /\ prev.op = "enable"
    /\ pc = "idle"

\* C11: get_modes with the duplication succeeding, in any panel state,
\* returns 1 and registers exactly one mode with the connector: 400x400
\* active, hsync_start 410, hsync_end 420, htotal 430 and the same
\* vertically.
C11_GetModesOneMode ==
    (op = "get_modes" /\ pc = "idle" /\ mode # NullMode)
        => /\ ret = 1
           /\ Len(connector.probed_modes) = 1
           /\ LET m == connector.probed_modes[1] IN
                /\ m.hdisplay = 400 /\ m.vdisplay = 400
                /\ m.hsync_start = 410 /\ m.vsync_start = 410
                /\ m.hsync_end = 420 /\ m.vsync_end = 420
                /\ m.htotal = 430 /\ m.vtotal = 430

C11_Witness ==
    /\ op = "get_modes"
    /\ pc = "idle"
    /\ mode # NullMode
    /\ pre = <<TRUE, TRUE>>
    /\ Len(connector.probed_modes) = 1
    /\ connector.probed_modes[1].name = <<400, "x", 400>>

\* C12: when the duplication yields no mode, get_modes returns normally
\* with a result other than 1, never uses the missing mode and registers no
\* mode with the connector.
C12_GetModesFailsCleanly ==
    (op = "get_modes" /\ mode = NullMode /\ pc # "gm_mode")
        => /\ pc = "idle"
           /\ ret # 1
           /\ connector.probed_modes = <<>>

\* C13: disable, then unprepare, then prepare, with every bus write
\* succeeding, ends from any state in prepared = TRUE and enabled = FALSE
\* after the same trace as a first prepare.
C13_FullCycle ==
    ( /\ pc = "idle"
      /\ op = "prepare"
      /\ prev.op = "unprepare"
      /\ prev.before = "disable"
      /\ prev.ok
      /\ AllOk(events) )
        => (prepared /\ ~enabled /\ ret = 0 /\ events = ExpectedPrepareTrace)

C13_Witness ==
    /\ pc = "idle"
    /\ op = "prepare"
    /\ prev.op = "unprepare"
    /\ prev.before = "disable"
    /\ prev.ok
    /\ AllOk(events)
    /\ Flags = <<TRUE, FALSE>>
    /\ "unprepare_enabled" \notin misuse

\* C15: enable called while prepared is false returns 0 and sets enabled,
\* which leaves enabled = TRUE with prepared = FALSE.
C15_EnableIgnoresPrepared ==
    (op = "enable" /\ ~pre[1])
        => (pc = "idle" /\ ret = 0 /\ enabled /\ ~prepared)

C15_Witness ==
    /\ op = "enable"
    /\ prev.op = "none"
    /\ pre = <<FALSE, FALSE>>
    /\ Flags = <<FALSE, TRUE>>
    /\ ret = 0

\* C16: within one prepare call nothing follows the first bus operation
\* that fails: no further bus command and no further delay.
C16_PrepareStopsAtFirstFailure ==
    op = "prepare" => \A n \in Failures(events) : n = Len(events)

\* C17: prepare and unprepare never change enabled, enable and disable never
\* change prepared, and get_modes changes neither flag and issues no bus
\* write.
C17_FlagFrames ==
    /\ op \in {"prepare", "unprepare"} => enabled = pre[2]
    /\ op \in {"enable", "disable"} => prepared = pre[1]
    /\ op = "get_modes" => (Flags = pre /\ events = <<>>)

C17_Witness ==
    /\ op = "unprepare"
    /\ pc = "idle"
    /\ pre = <<TRUE, TRUE>>
    /\ Flags = <<FALSE, TRUE>>

\* C18: prepared becomes true only in the last step of a prepare in which
\* exit-sleep and display-on both succeeded, and becomes false only in
\* unprepare; a prepare that fails on a prepared panel returns an error and
\* prepared stays true.
C18_PreparedTransitions ==
    [][ /\ (~prepared /\ prepared')
            => /\ op = "prepare"
               /\ Has(events, <<"exit_sleep_mode", TRUE>>)
               /\ Has(events, <<"set_display_on", TRUE>>)
               /\ events' = events
               /\ pc' = "idle"
               /\ ret' = 0
        /\ (prepared /\ ~prepared') => op = "unprepare"
        /\ ( /\ op' = "prepare"
             /\ pre'[1]
             /\ \/ Has(events', <<"exit_sleep_mode", FALSE>>)
                \/ Has(events', <<"set_display_on", FALSE>>) )
            => (pc' = "idle" /\ prepared' /\ ret' < 0) ]_vars

C18_Witness ==
    /\ op = "prepare"
    /\ pre[1]
    /\ pc = "idle"
    /\ Has(events, <<"set_display_on", FALSE>>)
    /\ ret < 0
    /\ prepared

\* C14: when mipi_dsi_attach fails, probe removes the panel it registered
\* and returns a non-zero result, so the device is not bound with no panel
\* registered.
C14_AttachFailureFailsProbe ==
    (op = "probe" /\ pc = "idle" /\ Has(events, <<"mipi_dsi_attach", FALSE>>))
        => (nalloc \notin panels /\ ret # 0 /\ ~bound)

\* C19: the context remove takes from the driver data is the one probe
\* allocated and registered for the device: it is not NULL, remove returns,
\* and after it the panel probe registered is no longer registered.
C19_RemoveUsesProbeContext ==
    op = "remove"
        => /\ pc # "oops"
           /\ pc \in {"detach", "panel_remove"}
                => (drvdata # NULL /\ drvdata = ctx)
           /\ pc = "idle" => nalloc \notin panels

=============================================================================
